---- MODULE Spec2Model ----
(***************************************************************************)
(* The payment-and-parcel consistency flow of the parcel-delivery server:  *)
(* POST /payments in its three versions (src/index.js, src/unnamed/        *)
(* part_002, src/unnamed/part_000), together with the parcel endpoints     *)
(* that touch the same documents (PATCH /parcels/:id, DELETE /parcels/:id),*)
(* the payment history (GET /payments) and the rider activation            *)
(* (PATCH /riders/status/:id) of index.js and part_002.                    *)
(* Every await of a store call is a scheduling point: the handlers of      *)
(* concurrent requests interleave between their store calls, and each      *)
(* store call is atomic on its document.                                   *)
(*                                                                         *)
(* Spec        POST /payments with the parcel routes                       *)
(* SpecNoEdits POST /payments alone                                        *)
(* SpecList    GET /payments over a growing payments collection            *)
(* SpecRiders  PATCH /riders/status/:id                                    *)
(* SpecPatch   the parcel routes alone                                     *)
(***************************************************************************)
EXTENDS Integers, Sequences, FiniteSets, TLC

\* Number of POST /payments requests a behaviour receives.
MaxReqs == 2

Reqs == 1..MaxReqs

\* The deployed server file.
Versions == {"index.js", "part_002", "part_000"}

\* Well-formed ObjectId strings, and one string that is no ObjectId.
ParcelIds == {"p1", "p2"}
Malformed == "zz"
TxIds == {"t1", "t2"}

PaymentStatuses == {"unpaid", "paid"}
DeliveryStatuses == {"pending", "paid"}

\* A slot of the parcels collection that holds no document.
NoParcel ==
  [present |-> FALSE, _id |-> "", created_by |-> "", tracking_id |-> "",
   creation_date |-> "", payment_status |-> "", delivery_status |-> ""]

\* The fields PATCH /parcels/:id deletes from its body.
ProtectedFields == {"_id", "created_by", "tracking_id", "creation_date"}

TrackingId(p) == IF p = "p1" THEN "TRK-1" ELSE "TRK-2"

\* The documents a parcel with _id p can be.
ParcelDocsOf(p) ==
  [present : {TRUE}, _id : {p}, created_by : {"a@b.com"},
   tracking_id : {TrackingId(p)}, creation_date : {"2025-01-01"},
   payment_status : PaymentStatuses, delivery_status : DeliveryStatuses]

ParcelDocs == UNION {ParcelDocsOf(p) : p \in ParcelIds}

\* req.body of POST /payments: the complete bodies, and one body per field
\* that is empty (falsy in JavaScript).
CompleteBodies ==
  [parcelId : ParcelIds \cup {Malformed}, email : {"a@b.com"}, amount : {500},
   paymentMethod : {"card"}, transactionId : TxIds]

BaseBody ==
  [parcelId |-> "p1", email |-> "a@b.com", amount |-> 500,
   paymentMethod |-> "card", transactionId |-> "t1"]

IncompleteBodies ==
  { [BaseBody EXCEPT !.parcelId = ""], [BaseBody EXCEPT !.email = ""],
    [BaseBody EXCEPT !.amount = 0], [BaseBody EXCEPT !.paymentMethod = ""],
    [BaseBody EXCEPT !.transactionId = ""] }

Bodies == CompleteBodies \cup IncompleteBodies

NoBody ==
  [parcelId |-> "", email |-> "", amount |-> 0, paymentMethod |-> "",
   transactionId |-> ""]

\* The Authorization header as verifyFBToken sees it.
Auths == {"none", "invalid", "valid"}

\* Bodies of PATCH /parcels/:id over the two status fields.
SetDocs ==
  { [payment_status |-> "unpaid"], [delivery_status |-> "pending"],
    [payment_status |-> "paid", delivery_status |-> "paid"] }

\* Bodies of PATCH /parcels/:id that also carry protected fields; each body
\* that sets the delivery status "in-transit" or "delivered" carries one.
PatchBodies ==
  { [_id |-> "p2", delivery_status |-> "in-transit"],
    [created_by |-> "x@y.com", tracking_id |-> "TRK-9",
     payment_status |-> "paid"],
    [creation_date |-> "1999-12-31"],
    [tracking_id |-> "TRK-9", creation_date |-> "1999-12-31",
     delivery_status |-> "delivered", payment_status |-> "unpaid"] }

VARIABLES
  version,       \* the server file that is running
  parcels,       \* parcelsCollection: _id -> document
  payments,      \* paymentsCollection, in insertion order
  pc,            \* per request: the store call its handler awaits
  body,          \* per request: req.body
  reply,         \* per request: the response sent (NoReply: none)
  fault,         \* per request: the call that threw, if any
  updateResult,  \* per request: what parcelsCollection.updateOne returned
  dupAtCall,     \* per request: a payment with its transactionId existed on arrival
  absentAtCall,  \* per request: its parcelId named no parcel on arrival
  effects,       \* per request: the store mutations it performed, in order
  markedPaid,    \* per parcel: unpaid->paid transitions made by POST /payments
  listing,       \* the GET /payments request in progress or last answered
  riders,        \* ridersCollection: _id -> status
  users,         \* usersCollection: email -> role
  riderCall      \* the last PATCH /riders/status/:id request and its response

riderVars == <<riders, users, riderCall>>

vars ==
  <<version, parcels, payments, pc, body, reply, fault, updateResult,
    dupAtCall, absentAtCall, effects, markedPaid, listing, riderVars>>

----------------------------------------------------------------------------
\* Responses.

NoReply == [status |-> 0, message |-> ""]
NoResult == [matchedCount |-> -1, modifiedCount |-> -1]

Duplicate409 == [status |-> 409, message |-> "Duplicate transaction. Already paid."]
NotFound404 == [status |-> 404, message |-> "Parcel not found or already paid"]
Created201 ==
  [status |-> 201, message |-> "Payment recorded and parcel marked as paid"]
Failed500 == [status |-> 500, message |-> "Failed to record payment"]
Missing400 == [status |-> 400, message |-> "Missing payment data"]
Unauthorized401 == [status |-> 401, message |-> "Unauthorized"]
InvalidId400 == [status |-> 400, message |-> "Invalid parcel ID"]
NotFound404_000 == [status |-> 404, message |-> "Parcel not found"]
Saved200 == [status |-> 200, message |-> "Payment saved & parcel marked as paid"]
\* part_000 answers with error.message of whatever was thrown.
Failed500_000(call) == [status |-> 500, message |-> call]
\* Express 5 forwards a rejected handler promise to its default error handler.
Default500 == [status |-> 500, message |-> "Internal Server Error"]

----------------------------------------------------------------------------
\* The store calls and the checks of the handlers.

\* ObjectId.isValid / new ObjectId(s) not throwing.
ObjectIdValid(s) == s \in ParcelIds

\* !parcelId || !email || !amount || !paymentMethod || !transactionId
MissingData(b) ==
  \/ b.parcelId = ""
  \/ b.email = ""
  \/ b.amount = 0
  \/ b.paymentMethod = ""
  \/ b.transactionId = ""

\* A lookup that also sees the transactions of handlers that have passed the
\* check and not yet inserted, as a reservation taken with the check would.
FindOne_Reserving(coll, tx) ==
  \/ \E i \in 1..Len(coll) : coll[i].transactionId = tx
  \/ \E q \in DOMAIN pc :
       pc[q] \in {"update", "insert"} /\ body[q].transactionId = tx

\* A lookup that matches on nothing: every transaction looks new.
FindOne_NoMatch(coll, tx) == FALSE

\* paymentsCollection.findOne({ transactionId }) is truthy.
FindOne(coll, tx) == \E i \in 1..Len(coll) : coll[i].transactionId = tx

\* What $set writes into a document.
ApplySet(doc, set) ==
  [f \in DOMAIN doc |-> IF f \in DOMAIN set THEN set[f] ELSE doc[f]]

\* An update that reports every matched document as modified.
UpdateOne_AlwaysModified(doc, set) ==
  IF ~doc.present
    THEN [doc |-> doc, matchedCount |-> 0, modifiedCount |-> 0]
    ELSE [doc |-> ApplySet(doc, set), matchedCount |-> 1, modifiedCount |-> 1]

\* updateOne({ _id }, { $set: set }) on the slot of that _id.
UpdateOne(doc, set) ==
  IF ~doc.present
    THEN [doc |-> doc, matchedCount |-> 0, modifiedCount |-> 0]
    ELSE [doc |-> ApplySet(doc, set), matchedCount |-> 1,
          modifiedCount |-> IF ApplySet(doc, set) = doc THEN 0 ELSE 1]

\* The $set of POST /payments.
PaidSet(v) ==
  IF v = "part_000"
    THEN [payment_status |-> "paid"]
    ELSE [delivery_status |-> "paid", payment_status |-> "paid"]

\* paymentDoc / doc, with the _id insertOne gives it; now is new Date().
PaymentDoc(b, id, now) ==
  [_id |-> id, parcelId |-> b.parcelId, email |-> b.email, amount |-> b.amount,
   paymentMethod |-> b.paymentMethod, transactionId |-> b.transactionId,
   paid_at |-> now]

\* The test PATCH /parcels/:id makes instead: matchedCount === 0.
NothingModified_Matched(res) == res.matchedCount = 0

\* updateResult.modifiedCount === 0
NothingModified(res) == res.modifiedCount = 0

\* The responses to a request whose handler threw. index.js and part_000
\* answer from their catch blocks. The part_002 handler has no try/catch, so
\* its promise rejects: Express 4 ignores the rejection and sends nothing,
\* Express 5 passes it to the default error handler; the sources pin neither.
ThrowReplies(v, call) ==
  IF v = "index.js" THEN {Failed500}
  ELSE IF v = "part_000" THEN {Failed500_000(call)}
  ELSE {NoReply, Default500}

----------------------------------------------------------------------------
\* GET /payments: query parameters, tokens and the idle listing.

\* A query parameter or body field that is not there.
Undefined == "undefined"

\* Emails of payers; they differ in case or in the address.
Emails == {"a@b.com", "A@b.com", "c@d.com"}

\* String.prototype.toLowerCase on those emails.
ToLowerCase(s) == IF s = "A@b.com" THEN "a@b.com" ELSE s

\* The Authorization header of a request: absent, a token verifyIdToken
\* rejects, or a token verified for an email.
Tokens == {"none", "invalid"} \cup Emails

\* No GET /payments request has arrived.
NoListing ==
  [pc |-> "idle", token |-> "none", email |-> Undefined, page |-> Undefined,
   limit |-> Undefined, status |-> 0, data |-> <<>>, total |-> -1,
   atFind |-> 0, atCount |-> 0]

----------------------------------------------------------------------------
\* PATCH /riders/status/:id: riders, users and the idle call record.

RiderIds == {"r1", "r2"}
RiderStatuses == {"pending", "active", "inactive"}
NoRider == "absent"

\* usersCollection keys; POST /users of part_002 stores emails in lower case.
UserEmails == {"a@b.com", "c@d.com"}
Roles == {"user", "rider", "admin"}
NoUser == "absent"

NoRiderCall ==
  [id |-> "", status |-> "", email |-> Undefined, token |-> "none", http |-> 0]

----------------------------------------------------------------------------

\* No payment is recorded and no POST /payments request has arrived.
NoRequests ==
  /\ payments = <<>>
  /\ pc = [r \in Reqs |-> "idle"]
  /\ body = [r \in Reqs |-> NoBody]
  /\ reply = [r \in Reqs |-> NoReply]
  /\ fault = [r \in Reqs |-> "none"]
  /\ updateResult = [r \in Reqs |-> NoResult]
  /\ dupAtCall = [r \in Reqs |-> FALSE]
  /\ absentAtCall = [r \in Reqs |-> FALSE]
  /\ effects = [r \in Reqs |-> <<>>]
  /\ markedPaid = [p \in ParcelIds |-> 0]

Init ==
  /\ version \in Versions
  /\ parcels \in {f \in [ParcelIds -> ParcelDocs \cup {NoParcel}] :
                    \A p \in ParcelIds : f[p] \in ParcelDocsOf(p) \cup {NoParcel}}
  /\ NoRequests
  /\ listing = NoListing
  /\ riders = [i \in RiderIds |-> NoRider]
  /\ users = [e \in UserEmails |-> NoUser]
  /\ riderCall = NoRiderCall

\* The handler of r ends with response rep (NoReply: without one).
Finish(r, rep) ==
  /\ pc' = [pc EXCEPT ![r] = "done"]
  /\ reply' = [reply EXCEPT ![r] = rep]

\* The handler of r goes on to await the store call next.
Await(r, next) ==
  /\ pc' = [pc EXCEPT ![r] = next]
  /\ reply' = reply

\* An exception out of call ends the handler of r.
Throw(r, call) ==
  /\ fault' = [fault EXCEPT ![r] = call]
  /\ \E rep \in ThrowReplies(version, call) : Finish(r, rep)

\* POST /payments arrives: middleware, validation, and the first store call
\* is issued.
Receive(r, b, auth) ==
  /\ pc[r] = "idle"
  /\ \A q \in Reqs : q < r => pc[q] # "idle"
  /\ body' = [body EXCEPT ![r] = b]
  /\ dupAtCall' =
       [dupAtCall EXCEPT
          ![r] = \E i \in 1..Len(payments) :
                   payments[i].transactionId = b.transactionId]
  /\ absentAtCall' =
       [absentAtCall EXCEPT
          ![r] = IF b.parcelId \in ParcelIds THEN ~parcels[b.parcelId].present
                 ELSE TRUE]
  /\ CASE version = "index.js" -> Await(r, "find")
       [] version = "part_002" ->
            IF auth # "valid" THEN Finish(r, Unauthorized401)
            ELSE IF MissingData(b) THEN Finish(r, Missing400)
            ELSE Await(r, "find")
       [] version = "part_000" ->
            IF MissingData(b) THEN Finish(r, Missing400)
            ELSE IF ~ObjectIdValid(b.parcelId) THEN Finish(r, InvalidId400)
            ELSE Await(r, "insert")
  /\ UNCHANGED <<listing, riderVars, version, parcels, payments, fault, updateResult, effects,
                 markedPaid>>

\* paymentsCollection.findOne returns (index.js, part_002).
Find(r) ==
  /\ pc[r] = "find"
  /\ IF FindOne(payments, body[r].transactionId)
       THEN Finish(r, Duplicate409) /\ fault' = fault
       ELSE IF ~ObjectIdValid(body[r].parcelId)
         THEN Throw(r, "ObjectId")
         ELSE Await(r, "update") /\ fault' = fault
  /\ UNCHANGED <<listing, riderVars, version, parcels, payments, body, updateResult, dupAtCall,
                 absentAtCall, effects, markedPaid>>

\* parcelsCollection.updateOne returns.
Update(r) ==
  /\ pc[r] = "update"
  /\ LET p == body[r].parcelId
         res == UpdateOne(parcels[p], PaidSet(version))
     IN /\ parcels' = [parcels EXCEPT ![p] = res.doc]
        /\ updateResult' =
             [updateResult EXCEPT
                ![r] = [matchedCount |-> res.matchedCount,
                        modifiedCount |-> res.modifiedCount]]
        /\ effects' =
             [effects EXCEPT
                ![r] = IF res.modifiedCount = 1 THEN Append(@, "parcel") ELSE @]
        /\ markedPaid' =
             [markedPaid EXCEPT
                ![p] = IF /\ parcels[p].present
                          /\ parcels[p].payment_status # "paid"
                          /\ res.doc.payment_status = "paid"
                       THEN @ + 1 ELSE @]
        /\ IF version = "part_000"
             THEN IF NothingModified(res) THEN Finish(r, NotFound404_000)
                  ELSE Finish(r, Saved200)
             ELSE IF NothingModified(res) THEN Finish(r, NotFound404)
                  ELSE Await(r, "insert")
  /\ UNCHANGED <<listing, riderVars, version, payments, body, fault, dupAtCall, absentAtCall>>

\* An insertion written as an upsert keyed on parcelId: it replaces the record
\* the parcel already has.
Insert_Upsert(r) ==
  /\ pc[r] = "insert"
  /\ payments' =
       Append(SelectSeq(payments, LAMBDA d : d.parcelId # body[r].parcelId),
              PaymentDoc(body[r], Len(payments) + 1, Len(payments) + 1))
  /\ effects' = [effects EXCEPT ![r] = Append(@, "payment")]
  /\ IF version = "part_000" THEN Await(r, "update") ELSE Finish(r, Created201)
  /\ UNCHANGED <<listing, riderVars, version, parcels, body, fault, updateResult, dupAtCall,
                 absentAtCall, markedPaid>>

\* paymentsCollection.insertOne returns.
Insert(r) ==
  /\ pc[r] = "insert"
  /\ payments' = Append(payments, PaymentDoc(body[r], Len(payments) + 1, Len(payments) + 1))
  /\ effects' = [effects EXCEPT ![r] = Append(@, "payment")]
  /\ IF version = "part_000" THEN Await(r, "update") ELSE Finish(r, Created201)
  /\ UNCHANGED <<listing, riderVars, version, parcels, body, fault, updateResult, dupAtCall,
                 absentAtCall, markedPaid>>

\* A failure path with a compensating write: when insertOne rejects after the
\* parcel update, the parcel is set back to unpaid.
StoreThrows_Rollback(r) ==
  /\ pc[r] \in {"find", "update", "insert"}
  /\ Throw(r, CASE pc[r] = "find" -> "findOne"
                [] pc[r] = "update" -> "updateOne"
                [] pc[r] = "insert" -> "insertOne")
  /\ parcels' =
       IF pc[r] = "insert" /\ version # "part_000"
         THEN [parcels EXCEPT ![body[r].parcelId].payment_status = "unpaid"]
         ELSE parcels
  /\ UNCHANGED <<listing, riderVars, version, payments, body, updateResult, dupAtCall,
                 absentAtCall, effects, markedPaid>>

\* A store call rejects instead of returning; the store is left as it was.
StoreThrows(r) ==
  /\ pc[r] \in {"find", "update", "insert"}
  /\ Throw(r, CASE pc[r] = "find" -> "findOne"
                [] pc[r] = "update" -> "updateOne"
                [] pc[r] = "insert" -> "insertOne")
  /\ UNCHANGED <<listing, riderVars, version, parcels, payments, body, updateResult, dupAtCall,
                 absentAtCall, effects, markedPaid>>

\* A body clean-up that leaves out delete updatedData.tracking_id.
StripProtected_KeepsTracking(b) ==
  [f \in DOMAIN b \ {"_id", "created_by", "creation_date"} |-> b[f]]

\* delete updatedData._id, .created_by, .tracking_id, .creation_date
StripProtected(b) == [f \in DOMAIN b \ ProtectedFields |-> b[f]]

\* PATCH /parcels/:id (index.js, part_002) with body b. An empty $set is
\* rejected by the store and changes nothing.
PatchParcel(p, b) ==
  /\ version \in {"index.js", "part_002"}
  /\ LET set == StripProtected(b)
     IN parcels' =
          IF DOMAIN set = {} THEN parcels
          ELSE [parcels EXCEPT ![p] = UpdateOne(parcels[p], set).doc]
  /\ UNCHANGED <<listing, riderVars, version, payments, pc, body, reply,
                 fault, updateResult, dupAtCall, absentAtCall, effects,
                 markedPaid>>

\* DELETE /parcels/:id.
DeleteParcel(p) ==
  /\ parcels' = [parcels EXCEPT ![p] = NoParcel]
  /\ UNCHANGED <<listing, riderVars, version, payments, pc, body, reply, fault, updateResult,
                 dupAtCall, absentAtCall, effects, markedPaid>>

Next ==
  \/ \E r \in Reqs, b \in Bodies, auth \in Auths : Receive(r, b, auth)
  \/ \E r \in Reqs : Find(r)
  \/ \E r \in Reqs : Update(r)
  \/ \E r \in Reqs : Insert(r)
  \/ \E r \in Reqs : StoreThrows(r)
  \/ \E p \in ParcelIds, set \in SetDocs : PatchParcel(p, set)
  \/ \E p \in ParcelIds : DeleteParcel(p)

Spec == Init /\ [][Next]_vars

\* The server when only POST /payments requests arrive: no other route
\* touches a parcel.
NextNoEdits ==
  \/ \E r \in Reqs, b \in Bodies, auth \in Auths : Receive(r, b, auth)
  \/ \E r \in Reqs : Find(r)
  \/ \E r \in Reqs : Update(r)
  \/ \E r \in Reqs : Insert(r)
  \/ \E r \in Reqs : StoreThrows(r)

SpecNoEdits == Init /\ [][NextNoEdits]_vars

\* The server when only the parcel routes receive requests (index.js,
\* part_002).
InitPatch == Init /\ version \in {"index.js", "part_002"}

NextPatch ==
  \/ \E p \in ParcelIds, b \in SetDocs \cup PatchBodies : PatchParcel(p, b)
  \/ \E p \in ParcelIds : DeleteParcel(p)

SpecPatch == InitPatch /\ [][NextPatch]_vars

----------------------------------------------------------------------------
\* GET /payments (index.js, part_002) over a growing payments collection.

\* Most payments a behaviour of SpecList inserts.
MaxPays == 3

\* Transaction ids of successive payments.
ListTxIds == <<"t1", "t2", "t3", "t4", "t5">>

\* Decimal numerals read by parseInt; req.query holds strings.
Numerals == <<"1", "2", "3">>
ParseInt(s) == IF s = "0" THEN 0 ELSE CHOOSE n \in 1..Len(Numerals) : Numerals[n] = s

PageParams == {Undefined, "0", "1", "2"}
LimitParams == {Undefined, "1", "2"}

\* const { email, page = 1, limit = 10 } = req.query, read as numbers.
PageOf(pg) == IF pg = Undefined THEN 1 ELSE ParseInt(pg)
LimitOf(lim) == IF lim = Undefined THEN 10 ELSE ParseInt(lim)

\* query = { email } in index.js, { email: email.toLowerCase() } in part_002.
QueryEmail(v, e) == IF v = "part_002" THEN ToLowerCase(e) ELSE e

\* The documents of coll that match { email: e }.
Matching(coll, e) == {i \in 1..Len(coll) : coll[i].email = e}

\* The orders sort({ paid_at: -1 }) can give the documents S: equal paid_at
\* values leave the order open.
SortedByPaidAt(coll, S) ==
  {s \in [1..Cardinality(S) -> S] :
     \A i, j \in 1..Cardinality(S) :
       i < j => s[i] # s[j] /\ coll[s[i]].paid_at >= coll[s[j]].paid_at}

\* find(query).sort({ paid_at: -1 }).skip(skip).limit(limit).toArray();
\* limit(0) is no limit.
FindPage(coll, e, skip, limit) ==
  LET S == Matching(coll, e)
      N == Cardinality(S)
      k == IF skip >= N THEN 0
           ELSE IF limit = 0 \/ limit > N - skip THEN N - skip ELSE limit
  IN {[i \in 1..k |-> coll[s[skip + i]]] : s \in SortedByPaidAt(coll, S)}

\* countDocuments(query)
CountDocuments(coll, e) == Cardinality(Matching(coll, e))

\* The response of GET /payments to a request it turns away.
Rejected(tok, e, pg, lim, st) ==
  [NoListing EXCEPT !.pc = "done", !.token = tok, !.email = e, !.page = pg,
                    !.limit = lim, !.status = st]

\* GET /payments arrives: verifyFBToken, then the checks of the handler up
\* to its first store call (find in index.js, countDocuments in part_002).
ListReceive(tok, e, pg, lim) ==
  /\ listing.pc = "idle"
  /\ listing' =
       IF version = "index.js"
         THEN IF tok = "none" THEN Rejected(tok, e, pg, lim, 401)
              ELSE IF tok = "invalid" THEN Rejected(tok, e, pg, lim, 403)
              ELSE IF tok # e THEN Rejected(tok, e, pg, lim, 403)
              ELSE [Rejected(tok, e, pg, lim, 0) EXCEPT !.pc = "find"]
         ELSE IF tok \in {"none", "invalid"} THEN Rejected(tok, e, pg, lim, 401)
              ELSE IF e = Undefined THEN Rejected(tok, e, pg, lim, 400)
              ELSE [Rejected(tok, e, pg, lim, 0) EXCEPT !.pc = "count"]
  /\ UNCHANGED <<riderVars, version, parcels, payments, pc, body, reply,
                 fault, updateResult, dupAtCall, absentAtCall, effects,
                 markedPaid>>

\* The find of GET /payments returns, or throws on a negative skip.
ListFind ==
  /\ listing.pc = "find"
  /\ LET skip == (PageOf(listing.page) - 1) * LimitOf(listing.limit)
     IN IF skip < 0
          THEN listing' = [listing EXCEPT !.pc = "done", !.status = 500]
          ELSE \E d \in FindPage(payments, QueryEmail(version, listing.email),
                                 skip, LimitOf(listing.limit)) :
                 listing' =
                   [listing EXCEPT
                      !.data = d, !.atFind = Len(payments),
                      !.pc = IF version = "index.js" THEN "count" ELSE "done",
                      !.status = IF version = "index.js" THEN 0 ELSE 200]
  /\ UNCHANGED <<riderVars, version, parcels, payments, pc, body, reply,
                 fault, updateResult, dupAtCall, absentAtCall, effects,
                 markedPaid>>

\* The countDocuments of GET /payments returns.
ListCount ==
  /\ listing.pc = "count"
  /\ listing' =
       [listing EXCEPT
          !.total = CountDocuments(payments, QueryEmail(version, listing.email)),
          !.atCount = Len(payments),
          !.pc = IF version = "index.js" THEN "done" ELSE "find",
          !.status = IF version = "index.js" THEN 200 ELSE 0]
  /\ UNCHANGED <<riderVars, version, parcels, payments, pc, body, reply,
                 fault, updateResult, dupAtCall, absentAtCall, effects,
                 markedPaid>>

\* The insertOne of a POST /payments request for email e at time now, as
\* GET /payments sees it. The clock does not go back; two insertions can
\* fall in the same millisecond.
InsertPaid(e, now) ==
  /\ Len(payments) < MaxPays
  /\ now \in IF payments = <<>> THEN {1}
             ELSE {payments[Len(payments)].paid_at,
                   payments[Len(payments)].paid_at + 1}
  /\ payments' =
       Append(payments,
              PaymentDoc([BaseBody EXCEPT
                            !.email = e,
                            !.transactionId = ListTxIds[Len(payments) + 1]],
                         Len(payments) + 1, now))
  /\ UNCHANGED <<listing, riderVars, version, parcels, pc, body, reply, fault,
                 updateResult, dupAtCall, absentAtCall, effects, markedPaid>>

InitList ==
  /\ version \in {"index.js", "part_002"}
  /\ parcels = [p \in ParcelIds |-> NoParcel]
  /\ NoRequests
  /\ listing = NoListing
  /\ riders = [i \in RiderIds |-> NoRider]
  /\ users = [e \in UserEmails |-> NoUser]
  /\ riderCall = NoRiderCall

NextList ==
  \/ \E tok \in Tokens, e \in Emails \cup {Undefined}, pg \in PageParams,
        lim \in LimitParams : ListReceive(tok, e, pg, lim)
  \/ ListFind
  \/ ListCount
  \/ \E e \in Emails, now \in 1..(MaxPays + 1) : InsertPaid(e, now)

SpecList == InitList /\ [][NextList]_vars

----------------------------------------------------------------------------
\* PATCH /riders/status/:id (index.js, part_002).

\* req.body.email of PATCH /riders/status/:id.
RiderEmails == {Undefined, "a@b.com", "A@b.com"}

\* The call record of a request answered with http.
RiderCall(id, st, e, tok, http) ==
  [id |-> id, status |-> st, email |-> e, token |-> tok, http |-> http]

\* The handler index.js runs: of its two registrations of this route the
\* first (lines 341-360) answers every request and never calls next(), so
\* the second (lines 363-391, with verifyFBToken and the role assignment) is
\* not reached.
PatchRiderStatus_index(id, st, e, tok) ==
  IF id \notin RiderIds
    THEN riderCall' = RiderCall(id, st, e, tok, 500) /\ UNCHANGED <<riders, users>>
  ELSE IF riders[id] = NoRider
    THEN riderCall' = RiderCall(id, st, e, tok, 404) /\ UNCHANGED <<riders, users>>
  ELSE /\ riders' = [riders EXCEPT ![id] = st]
       /\ riderCall' = RiderCall(id, st, e, tok, 200)
       /\ users' = users

\* part_002: verifyFBToken, verifyAdmin, then the handler.
PatchRiderStatus_002(id, st, e, tok) ==
  IF tok \in {"none", "invalid"}
    THEN riderCall' = RiderCall(id, st, e, tok, 401) /\ UNCHANGED <<riders, users>>
  ELSE IF tok \notin UserEmails \/ users[tok] # "admin"
    THEN riderCall' = RiderCall(id, st, e, tok, 403) /\ UNCHANGED <<riders, users>>
  ELSE IF id \notin RiderIds
    THEN riderCall' = RiderCall(id, st, e, tok, 400) /\ UNCHANGED <<riders, users>>
  ELSE IF riders[id] = NoRider
    THEN riderCall' = RiderCall(id, st, e, tok, 404) /\ UNCHANGED <<riders, users>>
  ELSE /\ riders' = [riders EXCEPT ![id] = st]
       /\ riderCall' = RiderCall(id, st, e, tok, 200)
       /\ users' =
            IF /\ st = "active"
               /\ e # Undefined
               /\ ToLowerCase(e) \in UserEmails
               /\ users[ToLowerCase(e)] # NoUser
              THEN [users EXCEPT ![ToLowerCase(e)] = "rider"]
              ELSE users

PatchRiderStatus(id, st, e, tok) ==
  /\ version \in {"index.js", "part_002"}
  /\ IF version = "index.js" THEN PatchRiderStatus_index(id, st, e, tok)
                             ELSE PatchRiderStatus_002(id, st, e, tok)
  /\ UNCHANGED <<listing, version, parcels, payments, pc, body, reply, fault,
                 updateResult, dupAtCall, absentAtCall, effects, markedPaid>>

InitRiders ==
  /\ version \in {"index.js", "part_002"}
  /\ parcels = [p \in ParcelIds |-> NoParcel]
  /\ NoRequests
  /\ listing = NoListing
  /\ riders \in [RiderIds -> RiderStatuses \cup {NoRider}]
  /\ users \in [UserEmails -> Roles \cup {NoUser}]
  /\ riderCall = NoRiderCall

NextRiders ==
  \E id \in RiderIds \cup {Malformed}, st \in RiderStatuses, e \in RiderEmails,
     tok \in Tokens : PatchRiderStatus(id, st, e, tok)

SpecRiders == InitRiders /\ [][NextRiders]_vars

----------------------------------------------------------------------------
\* The request r took a step of its handler.
Stepped(r) == pc'[r] # pc[r]

\* The payments recorded for parcel p.
PaymentsOf(p) == {i \in 1..Len(payments) : payments[i].parcelId = p}

\* The parcel is as a successful POST /payments leaves it.
FullyPaid(doc) ==
  doc.present /\ doc.payment_status = "paid" /\ doc.delivery_status = "paid"

\* The statuses section 6 and 7 of the specification document.
DocumentedStatuses == {200, 201, 400, 401, 403, 404, 409, 500, 502, 503}

\* C1: in every reachable state the payments collection holds at most one
\* Payment record per transactionId.
C1_OnePaymentPerTransaction ==
  \A i, j \in 1..Len(payments) :
    payments[i].transactionId = payments[j].transactionId => i = j

\* C2: a POST /payments whose transactionId was already recorded when it
\* arrived changes neither the parcels nor the payments in any of its steps,
\* never gets past the duplicate check, and is answered 409
\* DuplicateTransaction when the duplicate lookup returns (index.js, part_002).
C2_DuplicateRejected ==
  [][\A r \in Reqs :
       (version # "part_000" /\ dupAtCall'[r] /\ Stepped(r)) =>
         /\ parcels' = parcels
         /\ payments' = payments
         /\ pc'[r] \in {"find", "done"}
         /\ (pc[r] = "find" /\ fault'[r] = "none") =>
              (pc'[r] = "done" /\ reply'[r] = Duplicate409)]_vars

\* C2 witness: a request was answered 201, and a later request with the same
\* body was answered 409.
C2_Witness ==
  \E q, r \in Reqs :
    /\ q < r
    /\ reply[q] = Created201
    /\ body[r] = body[q]
    /\ dupAtCall[r]
    /\ reply[r] = Duplicate409

\* C3: no step of a POST /payments whose parcelId named no parcel when it
\* arrived changes the payments collection, in any version of the handler.
C3_NoPaymentForMissingParcel ==
  [][\A r \in Reqs :
       (absentAtCall'[r] /\ Stepped(r)) => payments' = payments]_vars

\* C4: in every reachable state every Payment record references a parcel
\* that exists and whose payment_status is "paid".
C4_PaymentsReferencePaidParcels ==
  \A i \in 1..Len(payments) :
    /\ payments[i].parcelId \in ParcelIds
    /\ parcels[payments[i].parcelId].present
    /\ parcels[payments[i].parcelId].payment_status = "paid"

\* C5: a POST /payments with an unused transactionId that is answered with
\* success has performed exactly one parcel mutation and then exactly one
\* Payment insertion, and a handler awaits the insertion only after its
\* parcel update reported a modified document.
C5_MutationThenInsertion ==
  \A r \in Reqs :
    /\ (~dupAtCall[r] /\ reply[r].status \in {200, 201}) =>
         effects[r] = <<"parcel", "payment">>
    /\ pc[r] = "insert" => updateResult[r].modifiedCount = 1

\* C6: each parcel is marked paid by the payment flow at most once, has at
\* most one Payment record, and no step of the payment flow moves a parcel
\* from paid to unpaid.
C6_PaidAtMostOnce ==
  [][\A p \in ParcelIds :
       /\ markedPaid'[p] <= 1
       /\ Cardinality({i \in 1..Len(payments') : payments'[i].parcelId = p}) <= 1
       /\ ((\E r \in Reqs : Stepped(r)) /\ parcels[p].payment_status = "paid") =>
            parcels'[p].payment_status = "paid"]_vars

\* C7: the response to a Payment insertion that failed after the parcel
\* update succeeded differs from the response to a failure of the duplicate
\* lookup or of the parcel update.
C7_DistinctPersistFailure ==
  \A q, r \in Reqs :
    ( /\ version # "part_000"
      /\ pc[q] = "done" /\ fault[q] = "insertOne"
      /\ updateResult[q].modifiedCount = 1
      /\ pc[r] = "done" /\ fault[r] \in {"findOne", "updateOne"} ) =>
      reply[q] # reply[r]

\* C8: a POST /payments handler never ends without a response of a
\* documented status.
C8_EveryRequestAnswered ==
  \A r \in Reqs : pc[r] = "done" => reply[r].status \in DocumentedStatuses

\* C9: with fresh transactionIds, the response for a parcel that does not
\* exist differs from the response for a parcel that is already paid.
C9_NotFoundDistinctFromAlreadyPaid ==
  \A q, r \in Reqs :
    ( /\ pc[q] = "done" /\ ~dupAtCall[q] /\ fault[q] = "none"
      /\ updateResult[q] = [matchedCount |-> 0, modifiedCount |-> 0]
      /\ pc[r] = "done" /\ ~dupAtCall[r] /\ fault[r] = "none"
      /\ updateResult[r] = [matchedCount |-> 1, modifiedCount |-> 0] ) =>
      reply[q] # reply[r]

\* C10: when the parcel update of a POST /payments with an unused
\* transactionId returns for a parcel that is already paid (as a successful
\* call left it), the request ends with 404 "Parcel not found or already
\* paid", and the step changes neither the parcel nor the payments
\* (index.js, part_002).
C10_AlreadyPaidRejected ==
  [][\A r \in Reqs :
       ( /\ version # "part_000"
         /\ pc[r] = "update" /\ Stepped(r) /\ fault'[r] = "none"
         /\ ~dupAtCall[r]
         /\ FullyPaid(parcels[body[r].parcelId]) ) =>
         /\ pc'[r] = "done"
         /\ reply'[r] = NotFound404
         /\ parcels' = parcels
         /\ payments' = payments]_vars

\* C10 witness: a request was answered 201 for a parcel, and a later request
\* with another transactionId for the same parcel was answered 404 with
\* nothing modified and no second Payment record.
C10_Witness ==
  \E q, r \in Reqs :
    /\ q < r
    /\ reply[q] = Created201
    /\ body[r].parcelId = body[q].parcelId
    /\ body[r].transactionId # body[q].transactionId
    /\ ~dupAtCall[r]
    /\ updateResult[r] = [matchedCount |-> 1, modifiedCount |-> 0]
    /\ reply[r] = NotFound404
    /\ Cardinality(PaymentsOf(body[r].parcelId)) = 1

\* C13: no step of a POST /payments whose body has an empty parcelId, email,
\* amount, paymentMethod or transactionId changes the parcels or the
\* payments, and the request ends with 400 (401 when the token check of
\* part_002 rejects it first).
C13_MissingDataRejected ==
  [][\A r \in Reqs :
       (Stepped(r) /\ MissingData(body'[r])) =>
         /\ parcels' = parcels
         /\ payments' = payments
         /\ pc'[r] = "done" => reply'[r].status \in {400, 401}]_vars

\* C14: every step leaves the Payment records already inserted in place and
\* unmodified: the payments collection only grows at its end.
C14_PaymentsAppendOnly ==
  [][/\ Len(payments') >= Len(payments)
     /\ SubSeq(payments', 1, Len(payments)) = payments]_vars

\* C14 witness: two Payment records are in the collection, and the parcel of
\* the first one has since been deleted.
C14_Witness ==
  /\ Len(payments) = 2
  /\ payments[1].parcelId \in ParcelIds
  /\ ~parcels[payments[1].parcelId].present
  /\ \E r \in Reqs : reply[r].status \in {200, 201}

\* C15: the duplicate check takes no reservation: while a request has passed
\* the check and not yet inserted its Payment record, another request with
\* the same transactionId that awaits its own lookup can pass the check too
\* (index.js, part_002).
C15_CheckNotAtomic ==
  \A q, r \in Reqs :
    ( /\ version # "part_000"
      /\ q # r
      /\ pc[q] \in {"update", "insert"}
      /\ pc[r] = "find"
      /\ body[r].transactionId = body[q].transactionId
      /\ body[r].parcelId \in ParcelIds
      /\ \A i \in 1..Len(payments) :
           payments[i].transactionId # body[r].transactionId ) =>
      ENABLED (Find(r) /\ pc'[r] = "update")

\* C15 witness: two requests with the same transactionId have both passed
\* the duplicate check and neither has inserted its Payment record.
C15_Witness ==
  \E q, r \in Reqs :
    /\ version # "part_000"
    /\ q # r
    /\ body[q].transactionId = body[r].transactionId
    /\ pc[q] \in {"update", "insert"}
    /\ pc[r] \in {"update", "insert"}
    /\ \A i \in 1..Len(payments) :
         payments[i].transactionId # body[r].transactionId

\* The request r ran the store calls of its handler to the end: it was not
\* turned away by the token or body checks and no call of it threw.
RanToEnd(r) ==
  /\ pc[r] = "done"
  /\ fault[r] = "none"
  /\ ~MissingData(body[r])
  /\ reply[r].status \notin {400, 401}

\* The requests that name parcel p.
CallsFor(p) == {r \in Reqs : pc[r] # "idle" /\ body[r].parcelId = p}

\* C16: with POST /payments the only route in use (index.js, part_002), of
\* the requests that name one parcel at most one gets modifiedCount 1 from
\* the parcel update, at most one is answered 201, at most one Payment record
\* is inserted for the parcel, and every other request that ran to its end is
\* answered 404 or 409.
C16_OneWinnerPerParcel ==
  version # "part_000" =>
    \A p \in ParcelIds :
      /\ Cardinality({r \in CallsFor(p) : updateResult[r].modifiedCount = 1}) <= 1
      /\ Cardinality({r \in CallsFor(p) : reply[r] = Created201}) <= 1
      /\ Cardinality(PaymentsOf(p)) <= 1
      /\ \A q, r \in CallsFor(p) :
           (q # r /\ updateResult[q].modifiedCount = 1 /\ RanToEnd(r)) =>
             reply[r].status \in {404, 409}

\* C16 witness: two requests with the same transactionId for one parcel both
\* passed the duplicate check, so they ran concurrently; one was answered 201
\* and the other 404 after its update matched the parcel and modified
\* nothing.
C16_Witness ==
  \E q, r \in Reqs :
    /\ version # "part_000"
    /\ q # r
    /\ body[q].parcelId = body[r].parcelId
    /\ body[q].transactionId = body[r].transactionId
    /\ reply[q] = Created201
    /\ reply[r] = NotFound404
    /\ updateResult[r] = [matchedCount |-> 1, modifiedCount |-> 0]

\* C17: with POST /payments the only route in use, once the insertion of a
\* request failed after its parcel update modified the parcel, the parcel
\* stays paid, it has no Payment record, and every other request for that
\* parcel that ran to its end is answered 404 (409 only when its
\* transactionId is recorded, for another parcel).
C17_NoRollbackNoRetry ==
  \A q \in Reqs :
    (fault[q] = "insertOne" /\ updateResult[q].modifiedCount = 1) =>
      LET p == body[q].parcelId
      IN /\ FullyPaid(parcels[p])
         /\ PaymentsOf(p) = {}
         /\ \A r \in CallsFor(p) :
              (r # q /\ RanToEnd(r)) =>
                \/ reply[r] = NotFound404
                \/ /\ reply[r] = Duplicate409
                   /\ \E i \in 1..Len(payments) :
                        payments[i].transactionId = body[r].transactionId

\* C17 witness: the insertion of one request failed after it had marked the
\* parcel paid, and another request for the same parcel was answered 404 with
\* the parcel matched and nothing modified; the parcel has no Payment record.
C17_Witness ==
  \E q, r \in Reqs :
    /\ q # r
    /\ fault[q] = "insertOne"
    /\ updateResult[q].modifiedCount = 1
    /\ body[r].parcelId = body[q].parcelId
    /\ reply[r] = NotFound404
    /\ updateResult[r] = [matchedCount |-> 1, modifiedCount |-> 0]
    /\ PaymentsOf(body[q].parcelId) = {}

\* C11: GET /payments answers with payment data only when the email of the
\* verified token equals the requested email; any other finished request has
\* been rejected and carries no Payment record.
C11_OwnEmailOnly ==
  listing.pc = "done" =>
    \/ listing.token \in Emails /\ listing.token = listing.email
    \/ listing.status \notin {0, 200} /\ listing.data = <<>>

\* C12: for page p >= 1 and page size n >= 1, a GET /payments answered 200
\* with no insertion between its two store calls returns as data the records
\* at positions (p-1)*n+1 .. min(p*n, N) of the N payments of the requested
\* email in some order of descending paid_at, and total = N.
C12_PageOfEmailPayments ==
  LET p == PageOf(listing.page)
      n == LimitOf(listing.limit)
      coll == SubSeq(payments, 1, listing.atFind)
      S == {i \in 1..Len(coll) : coll[i].email = listing.email}
      N == Cardinality(S)
      last == IF p * n < N THEN p * n ELSE N
      k == IF last > (p - 1) * n THEN last - (p - 1) * n ELSE 0
  IN ( /\ listing.pc = "done"
       /\ listing.status = 200
       /\ p >= 1
       /\ n >= 1
       /\ listing.atFind = listing.atCount ) =>
       /\ listing.total = N
       /\ Len(listing.data) = k
       /\ \E s \in SortedByPaidAt(coll, S) :
            \A i \in 1..k : listing.data[i] = coll[s[(p - 1) * n + i]]

\* C18: a PATCH /riders/status/:id answered 200 was made with a verified
\* token, and when it set the status "active" and carried the email of a
\* user, that user has the role "rider".
C18_ActivationAssignsRole ==
  riderCall.http = 200 =>
    /\ riderCall.token \in Emails
    /\ ( /\ riderCall.status = "active"
         /\ riderCall.email \in UserEmails
         /\ users[riderCall.email] # NoUser ) =>
         users[riderCall.email] = "rider"

\* C19: a PATCH /parcels/:id leaves _id, created_by, tracking_id and
\* creation_date of the identified parcel as they were, whatever its body
\* holds; the other fields of that parcel become what the body gives for them
\* and stay as they were where it gives nothing; every other parcel is
\* unchanged.
C19_PatchKeepsProtectedFields ==
  [][\A p \in ParcelIds, b \in SetDocs \cup PatchBodies :
       PatchParcel(p, b) =>
         /\ \A f \in ProtectedFields \cup {"present"} :
              parcels'[p][f] = parcels[p][f]
         /\ \A f \in {"payment_status", "delivery_status"} :
              parcels'[p][f] =
                IF parcels[p].present /\ f \in DOMAIN b THEN b[f]
                ELSE parcels[p][f]
         /\ \A o \in ParcelIds \ {p} : parcels'[o] = parcels[o]]_vars

\* C19 witness: parcel p1 has the delivery status "in-transit", which only a
\* PATCH whose body also carried _id "p2" sets, and it still has its own _id;
\* parcel p2 has the status "delivered", set by a body that carried another
\* tracking_id and creation_date, and still has its own.
C19_Witness ==
  /\ parcels["p1"].delivery_status = "in-transit"
  /\ parcels["p1"]._id = "p1"
  /\ parcels["p2"].delivery_status = "delivered"
  /\ parcels["p2"].tracking_id = TrackingId("p2")
  /\ parcels["p2"].creation_date = "2025-01-01"

====
